---------------------------- MODULE Spec2Model ----------------------------
(***************************************************************************)
(* A model of the two concurrency primitives of xutex:                     *)
(*                                                                         *)
(*   - OnceLock<T> (src/src/oncelock.rs): a single-assignment cell with a  *)
(*     three-state atomic status word and a busy-wait slow path;           *)
(*   - the queue pool (src/src/allocator.rs): a bounded ArrayQueue of      *)
(*     recycled Box<QueueStructure>, created and pre-filled on first use.  *)
(*                                                                         *)
(* Every thread is a small program counter machine; one action is one      *)
(* atomic step of the code (one atomic load / CAS / store, one access of   *)
(* the storage slot, one queue operation).                                 *)
(*                                                                         *)
(* Spec      threads calling get() / get_or_init() on one fresh OnceLock.  *)
(* PoolSpec  threads calling allocate_queue() / deallocate_queue().        *)
(***************************************************************************)
EXTENDS Integers, Sequences, FiniteSets, TLC

(***************************************************************************)
(* Bounds of the model.                                                    *)
(***************************************************************************)
\* number of threads that use the one OnceLock
NumThreads == 2
\* number of get / get_or_init calls each thread makes
MaxCalls == 2

Threads == 1..NumThreads

(***************************************************************************)
(* oncelock.rs: the status word's three values.                            *)
(***************************************************************************)
EMPTY == 0
INITIALIZING == 1
INITIALIZED == 2

\* get()'s empty result (Option::None)
NONE == 0
\* what MaybeUninit::uninit() holds: nothing that can be read as a T
UNINIT == -1

VARIABLES
    \* ---- OnceLock<T> ----
    state,        \* OnceLock.state : AtomicU8
    value,        \* OnceLock.value : UnsafeCell<MaybeUninit<T>>
    stateRel,     \* does the last store to `state` release the slot's write?
    seen,         \* seen[t]: the slot's write happens-before thread t's next step
    pc,           \* pc[t]: the line thread t is at
    op,           \* op[t]: the call thread t is in, or made last
    fac,          \* fac[t]: the factory passed to t's get_or_init call
    val,          \* val[t]: `let value = f()` of the CAS winner
    ret,          \* ret[t]: what t's last call returned
    calls,        \* calls[t]: calls started by t
    invoked,      \* the factories that were executed, in order
    writes,       \* number of writes of the storage slot
    completed,    \* has any get_or_init call returned?
    startInit,    \* startInit[t]: state = INITIALIZED when t's call started
    startDone,    \* startDone[t]: `completed` when t's call started
    endInit,      \* endInit[t]: state = INITIALIZED when t's call returned
    endDone,      \* endDone[t]: `completed` just before t's call returned
    \* ---- the queue pool ----
    qaState,      \* status of the static QUEUE_ALLOCATOR cell
    pool,         \* the ArrayQueue held by QUEUE_ALLOCATOR, oldest first
    lq,           \* lq[t]: `queue`, the local of the pre-fill closure run by t
    fillI,        \* fillI[t]: iterations done of the closure's for loop
    ppc,          \* ppc[t]: the line thread t is at
    pcall,        \* pcall[t]: the call thread t is in, or made last
    arg,          \* arg[t]: `element` of t's deallocate_queue call
    aret,         \* aret[t]: what t's last allocate_queue call returned
    owned,        \* owned[t]: the boxes thread t owns
    pcalls,       \* calls started so far
    nextId,       \* identity of the next Box::new(QueueStructure::new())
    fresh,        \* boxes constructed outside the pre-fill
    finalized,    \* the boxes that were dropped
    panicked,     \* has a step of the pool panicked?
    prefillRuns,  \* number of times the pre-fill closure was entered
    prefilled,    \* the boxes constructed by the pre-fill
    prefillErr,   \* pushes of the pre-fill that returned Err
    popLog,       \* results of the pops made before any push, in order
    pushed,       \* has any deallocate_queue call reached its push?
    popped,       \* has any allocate_queue call reached its pop?
    firstArg      \* `element` of the process's first pool call, if any

cellVars == <<state, value, stateRel, seen, pc, op, fac, val, ret, calls,
              invoked, writes, completed, startInit, startDone, endInit, endDone>>

poolVars == <<qaState, pool, lq, fillI, ppc, pcall, arg, aret, owned, pcalls,
              nextId, fresh, finalized, panicked, prefillRuns, prefilled,
              prefillErr, popLog, pushed, popped, firstArg>>

vars == <<cellVars, poolVars>>

(***************************************************************************)
(* The factory of the n-th call of thread t: every call passes its own     *)
(* closure, and every closure produces its own value.                      *)
(***************************************************************************)
Factory(t, n) == 10 * t + n

\* `f()`: running factory f yields its value
RunFactory(f) == f

(***************************************************************************)
(* Memory orderings.  The status word is one atomic location: every load   *)
(* reads its latest value.  The storage slot is plain memory: a thread     *)
(* may read it only when its write happens-before the read, which an       *)
(* Acquire load of a Release store gives.                                  *)
(***************************************************************************)
\* (mutant) a Relaxed load: it reads the status, and synchronizes with nothing
RelaxedLoad(t) == seen[t]

\* Ordering::Acquire load by t that reads the value stored last
AcquireLoad(t) == seen[t] \/ stateRel

\* (mutant) a Relaxed store: it publishes none of t's earlier writes
RelaxedStore(t) == FALSE

\* Ordering::Release store by t
ReleaseStore(t) == seen[t]

\* assume_init_ref(): the outcomes of reading the slot.  Without a
\* happens-before edge from the write the read is a data race.
ReadSlot(t) == IF seen[t] /\ value # UNINIT THEN {value} ELSE {value, UNINIT}

\* (mutant) get() taking every status but EMPTY for a written slot
IsNotEmpty(s) == s # EMPTY

\* get(), line 37: `... == INITIALIZED`
IsInitialized(s) == s = INITIALIZED

\* (mutant) a compare_exchange that expects "not yet INITIALIZED"
CasExpectsNotInitialized(cur) == cur # INITIALIZED

\* (mutant) a swap(INITIALIZING) in place of the compare_exchange
CasAlwaysSucceeds(cur) == TRUE

\* line 55: compare_exchange(EMPTY, ..) succeeds iff the status is EMPTY
CasSucceeds(cur) == cur = EMPTY

\* (mutant) the winner puts the status back to EMPTY
WinnerStoresEmpty == EMPTY

\* (mutant) the winner leaves the status at INITIALIZING
WinnerStoresInitializing == INITIALIZING

\* line 62: the status the winner stores once the slot is written
WinnerStores == INITIALIZED

\* (mutant) a loser that stops waiting as soon as the status is not EMPTY
SpinGivesUp(s) == s # EMPTY

\* line 68: the spin loop ends when the status read is INITIALIZED
SpinDone(s) == s = INITIALIZED

(***************************************************************************)
(* OnceLock::new()                                                         *)
(***************************************************************************)
CellInit ==
    /\ state = EMPTY
    /\ value = UNINIT
    /\ stateRel = FALSE
    /\ seen = [t \in Threads |-> FALSE]
    /\ pc = [t \in Threads |-> "idle"]
    /\ op = [t \in Threads |-> "none"]
    /\ fac = [t \in Threads |-> 0]
    /\ val = [t \in Threads |-> UNINIT]
    /\ ret = [t \in Threads |-> NONE]
    /\ calls = [t \in Threads |-> 0]
    /\ invoked = <<>>
    /\ writes = 0
    /\ completed = FALSE
    /\ startInit = [t \in Threads |-> FALSE]
    /\ startDone = [t \in Threads |-> FALSE]
    /\ endInit = [t \in Threads |-> FALSE]
    /\ endDone = [t \in Threads |-> FALSE]

\* bookkeeping of a call's start
Begin(t, o) ==
    /\ pc[t] = "idle"
    /\ calls[t] < MaxCalls
    /\ calls' = [calls EXCEPT ![t] = @ + 1]
    /\ op' = [op EXCEPT ![t] = o]
    /\ pc' = [pc EXCEPT ![t] = "get_load"]
    /\ startInit' = [startInit EXCEPT ![t] = (state = INITIALIZED)]
    /\ startDone' = [startDone EXCEPT ![t] = completed]

\* bookkeeping of a call's return with result r
Return(t, r) ==
    /\ pc' = [pc EXCEPT ![t] = "idle"]
    /\ ret' = [ret EXCEPT ![t] = r]
    /\ endInit' = [endInit EXCEPT ![t] = (state = INITIALIZED)]
    /\ endDone' = [endDone EXCEPT ![t] = completed]
    /\ completed' = (completed \/ op[t] = "get_or_init")

\* a thread calls get()
CallGet(t) ==
    /\ Begin(t, "get")
    /\ UNCHANGED <<state, value, stateRel, seen, fac, val, ret, invoked, writes,
                   completed, endInit, endDone>>
    /\ UNCHANGED poolVars

\* a thread calls get_or_init(f) with a closure of its own
CallGetOrInit(t) ==
    /\ Begin(t, "get_or_init")
    /\ fac' = [fac EXCEPT ![t] = Factory(t, calls[t] + 1)]
    /\ UNCHANGED <<state, value, stateRel, seen, val, ret, invoked, writes,
                   completed, endInit, endDone>>
    /\ UNCHANGED poolVars

\* get(), line 37: `if self.state.load(Acquire) == INITIALIZED`; line 40:
\* None (which get_or_init, line 49, answers by going on to the CAS)
GetLoad(t) ==
    /\ pc[t] = "get_load"
    /\ IF IsInitialized(state)
       THEN /\ seen' = [seen EXCEPT ![t] = AcquireLoad(t)]
            /\ pc' = [pc EXCEPT ![t] = "get_read"]
            /\ UNCHANGED <<ret, completed, endInit, endDone>>
       ELSE /\ IF op[t] = "get"
               THEN Return(t, NONE)
               ELSE /\ pc' = [pc EXCEPT ![t] = "cas"]
                    /\ UNCHANGED <<ret, completed, endInit, endDone>>
            /\ UNCHANGED seen
    /\ UNCHANGED <<state, value, stateRel, op, fac, val, calls, invoked, writes,
                   startInit, startDone>>
    /\ UNCHANGED poolVars

\* get(), line 38: Some(assume_init_ref()); get_or_init, line 50: return it
GetRead(t) ==
    /\ pc[t] = "get_read"
    /\ \E r \in ReadSlot(t) : Return(t, r)
    /\ UNCHANGED <<state, value, stateRel, seen, op, fac, val, calls, invoked,
                   writes, startInit, startDone>>
    /\ UNCHANGED poolVars

\* get_or_init, lines 53-56: compare_exchange(EMPTY, INITIALIZING, Acquire, Acquire)
Cas(t) ==
    /\ pc[t] = "cas"
    /\ IF CasSucceeds(state)
       THEN /\ state' = INITIALIZING
            /\ pc' = [pc EXCEPT ![t] = "factory"]
            /\ UNCHANGED seen
       ELSE /\ seen' = [seen EXCEPT ![t] = AcquireLoad(t)]
            /\ pc' = [pc EXCEPT ![t] = "spin"]
            /\ UNCHANGED state
    /\ UNCHANGED <<value, stateRel, op, fac, val, ret, calls, invoked, writes,
                   completed, startInit, startDone, endInit, endDone>>
    /\ UNCHANGED poolVars

\* line 58: `let value = f();`
RunF(t) ==
    /\ pc[t] = "factory"
    /\ val' = [val EXCEPT ![t] = RunFactory(fac[t])]
    /\ invoked' = Append(invoked, fac[t])
    /\ pc' = [pc EXCEPT ![t] = "write"]
    /\ UNCHANGED <<state, value, stateRel, seen, op, fac, ret, calls, writes,
                   completed, startInit, startDone, endInit, endDone>>
    /\ UNCHANGED poolVars

\* line 60: `(*self.value.get()).write(value);`
WriteSlot(t) ==
    /\ pc[t] = "write"
    /\ value' = val[t]
    /\ writes' = writes + 1
    /\ seen' = [seen EXCEPT ![t] = TRUE]
    /\ pc' = [pc EXCEPT ![t] = "store"]
    /\ UNCHANGED <<state, stateRel, op, fac, val, ret, calls, invoked,
                   completed, startInit, startDone, endInit, endDone>>
    /\ UNCHANGED poolVars

\* line 62: `self.state.store(INITIALIZED, Release);`
StoreInitialized(t) ==
    /\ pc[t] = "store"
    /\ state' = WinnerStores
    /\ stateRel' = ReleaseStore(t)
    /\ pc' = [pc EXCEPT ![t] = "win_read"]
    /\ UNCHANGED <<value, seen, op, fac, val, ret, calls, invoked, writes,
                   completed, startInit, startDone, endInit, endDone>>
    /\ UNCHANGED poolVars

\* line 63: the winner returns assume_init_ref()
WinRead(t) ==
    /\ pc[t] = "win_read"
    /\ \E r \in ReadSlot(t) : Return(t, r)
    /\ UNCHANGED <<state, value, stateRel, seen, op, fac, val, calls, invoked,
                   writes, startInit, startDone>>
    /\ UNCHANGED poolVars

\* line 68: `while self.state.load(Acquire) != INITIALIZED`
Spin(t) ==
    /\ pc[t] = "spin"
    /\ IF SpinDone(state)
       THEN /\ seen' = [seen EXCEPT ![t] = AcquireLoad(t)]
            /\ pc' = [pc EXCEPT ![t] = "spin_read"]
       ELSE /\ pc' = [pc EXCEPT ![t] = "snooze"]
            /\ UNCHANGED seen
    /\ UNCHANGED <<state, value, stateRel, op, fac, val, ret, calls, invoked,
                   writes, completed, startInit, startDone, endInit, endDone>>
    /\ UNCHANGED poolVars

\* line 69: `backoff.snooze();`
Snooze(t) ==
    /\ pc[t] = "snooze"
    /\ pc' = [pc EXCEPT ![t] = "spin"]
    /\ UNCHANGED <<state, value, stateRel, seen, op, fac, val, ret, calls,
                   invoked, writes, completed, startInit, startDone, endInit,
                   endDone>>
    /\ UNCHANGED poolVars

\* line 71: a loser returns assume_init_ref()
SpinRead(t) ==
    /\ pc[t] = "spin_read"
    /\ \E r \in ReadSlot(t) : Return(t, r)
    /\ UNCHANGED <<state, value, stateRel, seen, op, fac, val, calls, invoked,
                   writes, startInit, startDone>>
    /\ UNCHANGED poolVars

(***************************************************************************)
(* Bounds of the pool's model.                                             *)
(***************************************************************************)
\* number of threads that call allocate_queue / deallocate_queue
NumPoolThreads == 2
\* number of allocate_queue / deallocate_queue calls made in all
MaxPoolCalls == 5
\* boxes constructed outside the pre-fill (by allocate_queue's fallback, or
\* by a caller that hands deallocate_queue a box of its own)
MaxFresh == 2

\* allocator.rs line 10.  The source's capacity is 128; the model runs the
\* same code with a small capacity, which is the C of the claims.
QUEUE_POOL_CAPACITY == 2

PoolThreads == 1..NumPoolThreads

\* the result of ArrayQueue::push
PushOk == "Ok"
PushErr == "Err"

\* (mutant) a push on a queue without bound
UnboundedPush(q, x) == [queue |-> Append(q, x), res |-> PushOk]

\* (mutant) ArrayQueue::force_push(x): a full queue gives up its oldest element
ForcePush(q, x) ==
    IF Len(q) < QUEUE_POOL_CAPACITY
    THEN [queue |-> Append(q, x), res |-> PushOk]
    ELSE [queue |-> Append(Tail(q), x), res |-> PushOk]

\* ArrayQueue::push(x) on a queue of capacity QUEUE_POOL_CAPACITY: Err(x)
\* when the queue is full
ArrayQueuePush(q, x) ==
    IF Len(q) < QUEUE_POOL_CAPACITY
    THEN [queue |-> Append(q, x), res |-> PushOk]
    ELSE [queue |-> q, res |-> PushErr]

\* (mutant) a pop that hands out the oldest element and leaves it queued
PopPeek(q) ==
    IF q = <<>>
    THEN [queue |-> q, res |-> NONE]
    ELSE [queue |-> q, res |-> Head(q)]

\* ArrayQueue::pop(): None when the queue is empty, else the oldest element
ArrayQueuePop(q) ==
    IF q = <<>>
    THEN [queue |-> q, res |-> NONE]
    ELSE [queue |-> Tail(q), res |-> Head(q)]

\* `let _ = r` / `_ = r`: the Result of a push is discarded, never unwrapped
DiscardPanics(r) == FALSE

\* (mutant) the rejected box is forgotten, not dropped
DroppedNothing(r, x) == {}

\* (mutant) the box is dropped whether or not the queue took it
DroppedAlways(r, x) == {x}

\* the boxes a discarded push result drops: Err(x) carries x back
Dropped(r, x) == IF r = PushErr THEN {x} ELSE {}

\* (mutant) every caller that finds the cell not INITIALIZED runs the closure
InitializesUnlessDone(s) == s # INITIALIZED

\* (mutant) the initializer's role goes to a caller that finds INITIALIZING,
\* which no caller ever does first
InitializesOnInitializing(s) == s = INITIALIZING

\* get_or_init: the caller that finds the cell EMPTY becomes the initializer
BecomesInitializer(s) == s = EMPTY

\* (mutant) the closure returns a new, empty queue
ClosureResultEmpty(t) == <<>>

\* line 20: the closure returns `queue`
ClosureResult(t) == lq[t]

\* where get_queue_allocator() returns to
Body(t) == IF pcall[t] = "allocate" THEN "pop" ELSE "push"

\* the calls that may still construct a box in their fallback
Reserved == fresh + Cardinality({t \in PoolThreads :
                                   pcall[t] = "allocate" /\ ppc[t] # "idle"})

\* the process before its first pool call, with threads T
PoolInitOn(T) ==
    /\ qaState = EMPTY
    /\ pool = <<>>
    /\ lq = [t \in T |-> <<>>]
    /\ fillI = [t \in T |-> 0]
    /\ ppc = [t \in T |-> "idle"]
    /\ pcall = [t \in T |-> "none"]
    /\ arg = [t \in T |-> NONE]
    /\ aret = [t \in T |-> NONE]
    /\ owned = [t \in T |-> {}]
    /\ pcalls = 0
    /\ nextId = 1
    /\ fresh = 0
    /\ finalized = {}
    /\ panicked = FALSE
    /\ prefillRuns = 0
    /\ prefilled = {}
    /\ prefillErr = 0
    /\ popLog = <<>>
    /\ pushed = FALSE
    /\ popped = FALSE
    /\ firstArg = NONE

PoolInit == PoolInitOn(PoolThreads)

\* a thread calls allocate_queue()
StartAllocate(t) ==
    /\ ppc[t] = "idle"
    /\ pcalls' = pcalls + 1
    /\ pcall' = [pcall EXCEPT ![t] = "allocate"]
    /\ ppc' = [ppc EXCEPT ![t] = "once_get"]
    /\ UNCHANGED <<qaState, pool, lq, fillI, arg, aret, owned, nextId, fresh,
                   finalized, panicked, prefillRuns, prefilled, prefillErr,
                   popLog, pushed, popped, firstArg>>
    /\ UNCHANGED cellVars

\* a thread calls deallocate_queue(element) with a box it owns
StartDeallocate(t) ==
    /\ ppc[t] = "idle"
    /\ \E x \in owned[t] :
         /\ arg' = [arg EXCEPT ![t] = x]
         /\ owned' = [owned EXCEPT ![t] = @ \ {x}]
         /\ firstArg' = IF pcalls = 0 THEN x ELSE firstArg
    /\ pcalls' = pcalls + 1
    /\ pcall' = [pcall EXCEPT ![t] = "deallocate"]
    /\ ppc' = [ppc EXCEPT ![t] = "once_get"]
    /\ UNCHANGED <<qaState, pool, lq, fillI, aret, nextId, fresh, finalized,
                   panicked, prefillRuns, prefilled, prefillErr, popLog, pushed,
                   popped>>
    /\ UNCHANGED cellVars

\* a thread calls deallocate_queue(Box::new(QueueStructure::new())): the
\* element is any box, not only one that allocate_queue returned
StartDeallocateNew(t) ==
    /\ ppc[t] = "idle"
    /\ arg' = [arg EXCEPT ![t] = nextId]
    /\ firstArg' = IF pcalls = 0 THEN nextId ELSE firstArg
    /\ nextId' = nextId + 1
    /\ fresh' = fresh + 1
    /\ pcalls' = pcalls + 1
    /\ pcall' = [pcall EXCEPT ![t] = "deallocate"]
    /\ ppc' = [ppc EXCEPT ![t] = "once_get"]
    /\ UNCHANGED <<qaState, pool, lq, fillI, aret, owned, finalized, panicked,
                   prefillRuns, prefilled, prefillErr, popLog, pushed, popped>>
    /\ UNCHANGED cellVars

\* the calls of PoolSpec: the model's bounds on the number of calls and of
\* boxes constructed, and the call
CallAllocate(t) ==
    /\ pcalls < MaxPoolCalls
    /\ Reserved < MaxFresh
    /\ StartAllocate(t)

CallDeallocate(t) ==
    /\ pcalls < MaxPoolCalls
    /\ StartDeallocate(t)

CallDeallocateNew(t) ==
    /\ pcalls < MaxPoolCalls
    /\ Reserved < MaxFresh
    /\ StartDeallocateNew(t)

\* get_queue_allocator, line 15: get_or_init's fast path
OnceGet(t) ==
    /\ ppc[t] = "once_get"
    /\ ppc' = [ppc EXCEPT ![t] = IF qaState = INITIALIZED THEN Body(t)
                                                          ELSE "once_call"]
    /\ UNCHANGED <<qaState, pool, lq, fillI, pcall, arg, aret, owned, pcalls,
                   nextId, fresh, finalized, panicked, prefillRuns, prefilled,
                   prefillErr, popLog, pushed>>
    /\ UNCHANGED <<popped, firstArg>>
    /\ UNCHANGED cellVars

\* line 15: get_or_init's slow path: one caller becomes the initializer and
\* enters the closure, the others wait for it
OnceCall(t) ==
    /\ ppc[t] = "once_call"
    /\ IF BecomesInitializer(qaState)
       THEN /\ qaState' = INITIALIZING
            /\ prefillRuns' = prefillRuns + 1
            /\ ppc' = [ppc EXCEPT ![t] = "new_queue"]
       ELSE /\ ppc' = [ppc EXCEPT ![t] = "once_wait"]
            /\ UNCHANGED <<qaState, prefillRuns>>
    /\ UNCHANGED <<pool, lq, fillI, pcall, arg, aret, owned, pcalls, nextId,
                   fresh, finalized, panicked, prefilled, prefillErr, popLog,
                   pushed>>
    /\ UNCHANGED <<popped, firstArg>>
    /\ UNCHANGED cellVars

\* line 15: a caller that lost waits until the initializer is done
OnceWait(t) ==
    /\ ppc[t] = "once_wait"
    /\ qaState = INITIALIZED
    /\ ppc' = [ppc EXCEPT ![t] = Body(t)]
    /\ UNCHANGED <<qaState, pool, lq, fillI, pcall, arg, aret, owned, pcalls,
                   nextId, fresh, finalized, panicked, prefillRuns, prefilled,
                   prefillErr, popLog, pushed>>
    /\ UNCHANGED <<popped, firstArg>>
    /\ UNCHANGED cellVars

\* line 16: `let queue = ArrayQueue::new(QUEUE_POOL_CAPACITY);`
NewQueue(t) ==
    /\ ppc[t] = "new_queue"
    /\ lq' = [lq EXCEPT ![t] = <<>>]
    /\ fillI' = [fillI EXCEPT ![t] = 0]
    /\ ppc' = [ppc EXCEPT ![t] = "fill"]
    /\ UNCHANGED <<qaState, pool, pcall, arg, aret, owned, pcalls, nextId,
                   fresh, finalized, panicked, prefillRuns, prefilled,
                   prefillErr, popLog, pushed>>
    /\ UNCHANGED <<popped, firstArg>>
    /\ UNCHANGED cellVars

\* lines 17-19: one iteration of `for _ in 0..QUEUE_POOL_CAPACITY`:
\* `let _ = queue.push(Box::new(QueueStructure::new()));`
Fill(t) ==
    /\ ppc[t] = "fill"
    /\ fillI[t] < QUEUE_POOL_CAPACITY
    /\ LET r == ArrayQueuePush(lq[t], nextId) IN
         /\ lq' = [lq EXCEPT ![t] = r.queue]
         /\ finalized' = finalized \cup Dropped(r.res, nextId)
         /\ prefillErr' = prefillErr + (IF r.res = PushErr THEN 1 ELSE 0)
         /\ panicked' = (panicked \/ DiscardPanics(r.res))
    /\ prefilled' = prefilled \cup {nextId}
    /\ nextId' = nextId + 1
    /\ fillI' = [fillI EXCEPT ![t] = @ + 1]
    /\ UNCHANGED <<qaState, pool, ppc, pcall, arg, aret, owned, pcalls, fresh,
                   prefillRuns, popLog, pushed>>
    /\ UNCHANGED <<popped, firstArg>>
    /\ UNCHANGED cellVars

\* lines 20-21: the loop is over, the closure returns `queue` and
\* get_or_init stores it in QUEUE_ALLOCATOR
Publish(t) ==
    /\ ppc[t] = "fill"
    /\ fillI[t] >= QUEUE_POOL_CAPACITY
    /\ pool' = ClosureResult(t)
    /\ qaState' = INITIALIZED
    /\ ppc' = [ppc EXCEPT ![t] = Body(t)]
    /\ UNCHANGED <<lq, fillI, pcall, arg, aret, owned, pcalls, nextId, fresh,
                   finalized, panicked, prefillRuns, prefilled, prefillErr,
                   popLog, pushed>>
    /\ UNCHANGED <<popped, firstArg>>
    /\ UNCHANGED cellVars

\* allocate_queue, lines 26-27: `get_queue_allocator().pop()`
Pop(t) ==
    /\ ppc[t] = "pop"
    /\ LET r == ArrayQueuePop(pool) IN
         /\ pool' = r.queue
         /\ popLog' = IF pushed THEN popLog ELSE Append(popLog, r.res)
         /\ IF r.res = NONE
            THEN /\ ppc' = [ppc EXCEPT ![t] = "fallback"]
                 /\ UNCHANGED <<aret, owned>>
            ELSE /\ ppc' = [ppc EXCEPT ![t] = "idle"]
                 /\ aret' = [aret EXCEPT ![t] = r.res]
                 /\ owned' = [owned EXCEPT ![t] = @ \cup {r.res}]
    /\ UNCHANGED <<qaState, lq, fillI, pcall, arg, pcalls, nextId, fresh,
                   finalized, panicked, prefillRuns, prefilled, prefillErr,
                   pushed>>
    /\ popped' = TRUE
    /\ UNCHANGED firstArg
    /\ UNCHANGED cellVars

\* line 28: `.unwrap_or_else(|| Box::new(QueueStructure::new()))`
Fallback(t) ==
    /\ ppc[t] = "fallback"
    /\ aret' = [aret EXCEPT ![t] = nextId]
    /\ owned' = [owned EXCEPT ![t] = @ \cup {nextId}]
    /\ nextId' = nextId + 1
    /\ fresh' = fresh + 1
    /\ ppc' = [ppc EXCEPT ![t] = "idle"]
    /\ UNCHANGED <<qaState, pool, lq, fillI, pcall, arg, pcalls, finalized,
                   panicked, prefillRuns, prefilled, prefillErr, popLog, pushed>>
    /\ UNCHANGED <<popped, firstArg>>
    /\ UNCHANGED cellVars

\* deallocate_queue, line 33: `_ = get_queue_allocator().push(element)`
Push(t) ==
    /\ ppc[t] = "push"
    /\ LET r == ArrayQueuePush(pool, arg[t]) IN
         /\ pool' = r.queue
         /\ finalized' = finalized \cup Dropped(r.res, arg[t])
         /\ panicked' = (panicked \/ DiscardPanics(r.res))
    /\ arg' = [arg EXCEPT ![t] = NONE]
    /\ pushed' = TRUE
    /\ ppc' = [ppc EXCEPT ![t] = "idle"]
    /\ UNCHANGED <<qaState, lq, fillI, pcall, aret, owned, pcalls, nextId,
                   fresh, prefillRuns, prefilled, prefillErr, popLog>>
    /\ UNCHANGED <<popped, firstArg>>
    /\ UNCHANGED cellVars

\* one step of thread t in the pool
PoolStep(t) ==
    \/ OnceGet(t)
    \/ OnceCall(t)
    \/ OnceWait(t)
    \/ NewQueue(t)
    \/ Fill(t)
    \/ Publish(t)
    \/ Pop(t)
    \/ Fallback(t)
    \/ Push(t)

Init == CellInit /\ PoolInit

Next ==
    \E t \in Threads :
        \/ CallGet(t)
        \/ CallGetOrInit(t)
        \/ GetLoad(t)
        \/ GetRead(t)
        \/ Cas(t)
        \/ RunF(t)
        \/ WriteSlot(t)
        \/ StoreInitialized(t)
        \/ WinRead(t)
        \/ Spin(t)
        \/ Snooze(t)
        \/ SpinRead(t)

Spec == Init /\ [][Next]_vars

PoolNext ==
    \E t \in PoolThreads :
        \/ CallAllocate(t)
        \/ CallDeallocate(t)
        \/ CallDeallocateNew(t)
        \/ OnceGet(t)
        \/ OnceCall(t)
        \/ OnceWait(t)
        \/ NewQueue(t)
        \/ Fill(t)
        \/ Publish(t)
        \/ Pop(t)
        \/ Fallback(t)
        \/ Push(t)

PoolSpec == Init /\ [][PoolNext]_vars

(***************************************************************************)
(* The same cell when the factories never return: `f()` (line 58) is a     *)
(* step that is never taken.  Every thread that can take a step of its     *)
(* call eventually takes one.                                              *)
(***************************************************************************)
\* a step of thread t's call that is not the return of its factory
HangStep(t) == GetLoad(t) \/ Cas(t) \/ Spin(t) \/ Snooze(t)

HangNext ==
    \E t \in Threads :
        \/ CallGet(t)
        \/ CallGetOrInit(t)
        \/ GetLoad(t)
        \/ Cas(t)
        \/ Spin(t)
        \/ Snooze(t)

HangSpec == Init /\ [][HangNext]_vars
               /\ \A t \in Threads : WF_vars(HangStep(t))

(***************************************************************************)
(* The race on an empty pool.  Thread 0 is an earlier caller: it either    *)
(* makes no call at all (no queue exists yet) or takes all the pre-filled  *)
(* boxes out and keeps them (the queue exists and is empty).  Then         *)
(* QUEUE_POOL_CAPACITY + 1 racers call allocate_queue concurrently, and,   *)
(* once all of them have returned, each gives its box back with            *)
(* deallocate_queue, concurrently again.                                   *)
(***************************************************************************)
Holder == 0
Racers == 1..(QUEUE_POOL_CAPACITY + 1)
RaceThreads == {Holder} \cup Racers

RaceInit == CellInit /\ PoolInitOn(RaceThreads)

\* the pool holds no box: it was never created, or the holder emptied it
PoolEmptied ==
    /\ ppc[Holder] = "idle"
    /\ \/ pcall[Holder] = "none"
       \/ Cardinality(owned[Holder]) = QUEUE_POOL_CAPACITY

\* the holder takes one more box out, before the race
HolderAllocate ==
    /\ \A r \in Racers : pcall[r] = "none"
    /\ Cardinality(owned[Holder]) < QUEUE_POOL_CAPACITY
    /\ StartAllocate(Holder)

\* racer r calls allocate_queue() on the empty pool
RacerAllocate(r) ==
    /\ PoolEmptied
    /\ pcall[r] = "none"
    /\ StartAllocate(r)

\* every racer has returned from allocate_queue()
AllAllocated ==
    \A r \in Racers : pcall[r] = "deallocate"
                        \/ (pcall[r] = "allocate" /\ ppc[r] = "idle")

\* racer r calls deallocate_queue() with the box it was given
RacerDeallocate(r) ==
    /\ AllAllocated
    /\ pcall[r] = "allocate"
    /\ StartDeallocate(r)

RaceNext ==
    \/ HolderAllocate
    \/ \E r \in Racers : RacerAllocate(r) \/ RacerDeallocate(r)
    \/ \E t \in RaceThreads :
           \/ OnceGet(t)
           \/ OnceCall(t)
           \/ OnceWait(t)
           \/ NewQueue(t)
           \/ Fill(t)
           \/ Publish(t)
           \/ Pop(t)
           \/ Fallback(t)
           \/ Push(t)

RaceSpec == RaceInit /\ [][RaceNext]_vars

(***************************************************************************)
(* The cell under fair scheduling: a thread inside a call keeps taking the *)
(* call's next step, and a factory that was entered (line 58) returns.     *)
(* Whether a thread starts another call is left open.                      *)
(***************************************************************************)
\* the next step of the call thread t is in
Step(t) ==
    \/ GetLoad(t)
    \/ GetRead(t)
    \/ Cas(t)
    \/ RunF(t)
    \/ WriteSlot(t)
    \/ StoreInitialized(t)
    \/ WinRead(t)
    \/ Spin(t)
    \/ Snooze(t)
    \/ SpinRead(t)

\* calls each thread makes under FairSpec
FairCalls == 1

FairCallGet(t) == calls[t] < FairCalls /\ CallGet(t)

FairCallGetOrInit(t) == calls[t] < FairCalls /\ CallGetOrInit(t)

FairNext ==
    \E t \in Threads :
        \/ FairCallGet(t)
        \/ FairCallGetOrInit(t)
        \/ GetLoad(t)
        \/ GetRead(t)
        \/ Cas(t)
        \/ RunF(t)
        \/ WriteSlot(t)
        \/ StoreInitialized(t)
        \/ WinRead(t)
        \/ Spin(t)
        \/ Snooze(t)
        \/ SpinRead(t)

FairSpec == Init /\ [][FairNext]_vars /\ \A t \in Threads : WF_vars(Step(t))


(***************************************************************************)
(* The same cell when every factory is re-entrant: the closure passed to   *)
(* get_or_init calls get_or_init on the same cell, so `f()` (line 58)      *)
(* returns only after that inner call has returned.  The inner call runs   *)
(* on the caller's thread, from line 49.                                   *)
(***************************************************************************)
\* line 58: f() is entered and calls get_or_init on the same cell
Reenter(t) ==
    /\ pc[t] = "factory"
    /\ pc' = [pc EXCEPT ![t] = "get_load"]
    /\ UNCHANGED <<state, value, stateRel, seen, op, fac, val, ret, calls,
                   invoked, writes, completed, startInit, startDone, endInit,
                   endDone>>
    /\ UNCHANGED poolVars

\* the next step of the call thread t is in
ReentrantStep(t) ==
    GetLoad(t) \/ Cas(t) \/ Reenter(t) \/ Spin(t) \/ Snooze(t)

ReentrantNext ==
    \E t \in Threads :
        \/ CallGet(t)
        \/ CallGetOrInit(t)
        \/ GetLoad(t)
        \/ Cas(t)
        \/ Reenter(t)
        \/ Spin(t)
        \/ Snooze(t)

ReentrantSpec ==
    Init /\ [][ReentrantNext]_vars /\ \A t \in Threads : WF_vars(ReentrantStep(t))

(***************************************************************************)
(* Properties of OnceLock, checked under Spec.                             *)
(***************************************************************************)
Range(q) == {q[i] : i \in DOMAIN q}

\* thread t has returned from a call of o
Returned(t, o) == pc[t] = "idle" /\ op[t] = o

\* C1: however many get_or_init calls race on the fresh cell, at most one
\* factory is ever executed, and every get_or_init call that has returned
\* returned the value that one factory produced.
C1_ExactlyOneFactory ==
    /\ Len(invoked) <= 1
    /\ \A t \in Threads :
         Returned(t, "get_or_init") =>
            /\ Len(invoked) = 1
            /\ ret[t] = RunFactory(invoked[1])

\* C1 witness: every thread has returned from a get_or_init call that it
\* started before the cell was initialized, and one of them got the value
\* of a factory that is not its own.
C1_Witness ==
    /\ \A t \in Threads :
         Returned(t, "get_or_init") /\ calls[t] = 1 /\ ~startInit[t]
            /\ ret[t] = value
    /\ \E t \in Threads : fac[t] # invoked[1]

\* C2: whenever a caller is about to read the storage slot (get's line 38,
\* the winner's line 63, a loser's line 71), the slot holds the winner's
\* factory result and that write happens-before the read; no call ever
\* returned an unwritten slot.
C2_ReadersSeeWrite ==
    /\ \A t \in Threads :
         pc[t] \in {"get_read", "win_read", "spin_read"} =>
            /\ seen[t]
            /\ writes = 1
            /\ Len(invoked) = 1
            /\ value = RunFactory(invoked[1])
    /\ \A t \in Threads :
         /\ ret[t] # UNINIT
         /\ (pc[t] = "idle" /\ ret[t] # NONE) => ret[t] = value

\* C2 witness: a loser that left the spin loop is about to read the slot
\* while a get() of the other thread is about to read it too.
C2_Witness ==
    \E t, u \in Threads :
        /\ pc[t] = "spin_read"
        /\ pc[u] = "get_read" /\ op[u] = "get"

\* C3 (as claimed): a get() that returns before any get_or_init call has
\* returned yields empty, and a get() called after a get_or_init call has
\* returned yields the initialized value.
C3_GetEmptyUntilFirstCompletes ==
    \A t \in Threads :
        Returned(t, "get") =>
            /\ ~endDone[t] => ret[t] = NONE
            /\ startDone[t] => (ret[t] # NONE /\ ret[t] = value)

\* C3 (amended): a get() that returns while the status is not yet
\* INITIALIZED yields empty, and a get() called once the status is
\* INITIALIZED, so also one called after a get_or_init call has returned,
\* yields the initialized value.
C3_GetEmptyUntilInitialized ==
    \A t \in Threads :
        Returned(t, "get") =>
            /\ ~endInit[t] => ret[t] = NONE
            /\ (startInit[t] \/ startDone[t]) =>
                  (ret[t] # NONE /\ ret[t] = value /\ Len(invoked) = 1
                     /\ ret[t] = RunFactory(invoked[1]))

\* C3 witness: one get() returned empty while a factory was running, and
\* another, called after a get_or_init call had returned, returned the value.
C3_Witness ==
    \E t, u \in Threads :
        /\ Returned(t, "get") /\ ret[t] = NONE /\ invoked # <<>>
        /\ Returned(u, "get") /\ startDone[u] /\ ret[u] = value

\* C4: once the status is INITIALIZED, no step runs a factory, writes the
\* slot or changes the status, the invocation count is 1, and every
\* get_or_init call that returns yields the stored value.
C4_NoReinitialization ==
    [][state = INITIALIZED =>
          /\ state' = INITIALIZED
          /\ value' = value
          /\ writes' = writes
          /\ invoked' = invoked
          /\ Len(invoked) = 1
          /\ \A t \in Threads :
               (op[t] = "get_or_init" /\ pc[t] # "idle" /\ pc'[t] = "idle")
                  => ret'[t] = value]_vars

\* C4 witness: a get_or_init call that started on the initialized cell has
\* returned the stored value, another thread's factory having produced it.
C4_Witness ==
    \E t \in Threads :
        /\ Returned(t, "get_or_init") /\ startInit[t]
        /\ ret[t] = value /\ Len(invoked) = 1 /\ fac[t] # invoked[1]

(***************************************************************************)
(* Properties of the queue pool, checked under PoolSpec.                   *)
(***************************************************************************)
\* C5: the pool queue, and the queue being pre-filled, never hold more than
\* QUEUE_POOL_CAPACITY boxes.
C5_PoolBounded ==
    /\ Len(pool) <= QUEUE_POOL_CAPACITY
    /\ \A t \in PoolThreads : Len(lq[t]) <= QUEUE_POOL_CAPACITY

\* C5 witness: a deallocate_queue call met the full pool, which is still full.
C5_Witness ==
    /\ Len(pool) = QUEUE_POOL_CAPACITY
    /\ pushed
    /\ finalized # {}

\* C6: no box is owned by two callers, a box a caller owns is neither in the
\* pool (where another allocate_queue could pop it) nor in flight to the
\* pool nor dropped, the pool holds no box twice, and no step has panicked.
C6_ExclusiveOwnership ==
    /\ \A t, u \in PoolThreads : t # u => owned[t] \cap owned[u] = {}
    /\ \A t \in PoolThreads :
         owned[t] \cap (Range(pool) \cup finalized
                          \cup {arg[u] : u \in PoolThreads}) = {}
    /\ \A i, j \in DOMAIN pool : i # j => pool[i] # pool[j]
    /\ ~panicked

\* C6 witness: both threads own a box at once, one of them a box that the
\* other had been handed before and has given back to the pool.
C6_Witness ==
    \E t, u \in PoolThreads :
        /\ t # u /\ owned[t] # {} /\ owned[u] # {}
        /\ pushed
        /\ aret[u] \in owned[t]

\* C7: the pre-fill closure is entered at most once; at the step that
\* completes the initialization it has run once, constructed exactly
\* QUEUE_POOL_CAPACITY boxes, had no push fail, and the pool holds exactly
\* those boxes; and the cell, once initialized, is never initialized again.
C7_PrefillOnce ==
    [][/\ prefillRuns' <= 1
       /\ (qaState # INITIALIZED /\ qaState' = INITIALIZED) =>
             /\ prefillRuns' = 1
             /\ Cardinality(prefilled') = QUEUE_POOL_CAPACITY
             /\ prefillErr' = 0
             /\ Len(pool') = QUEUE_POOL_CAPACITY
             /\ Range(pool') = prefilled'
       /\ qaState = INITIALIZED =>
             (qaState' = INITIALIZED /\ prefilled' = prefilled)]_vars

\* C7 witness: the initialization has completed while another thread, which
\* raced the first use, waits for it.
C7_Witness ==
    /\ qaState = INITIALIZED
    /\ Len(pool) = QUEUE_POOL_CAPACITY
    /\ \E t \in PoolThreads : ppc[t] = "once_wait"

\* thread t is inside get_or_init waiting for the initializer
Waiting(t) == ppc[t] = "once_wait" /\ qaState # INITIALIZED

\* thread t is running the pre-fill closure
Initializing(t) == ppc[t] \in {"new_queue", "fill"}

\* C8 (as claimed): no allocate_queue call ever waits for another thread.
C8_AllocateNeverWaits ==
    \A t \in PoolThreads : pcall[t] = "allocate" => ~Waiting(t)

\* C8 (amended): an allocate_queue call in progress can always take its next
\* step by itself, except that a call that raced the first use waits while
\* another thread runs the pre-fill; once the pool is initialized no call
\* waits; and a call that has returned returned a box, which the caller owns.
C8_AllocateWaitsOnlyForPrefill ==
    \A t \in PoolThreads :
        pcall[t] = "allocate" =>
            /\ ppc[t] # "idle" =>
                  \/ ENABLED PoolStep(t)
                  \/ /\ Waiting(t)
                     /\ qaState = INITIALIZING
                     /\ \E u \in PoolThreads : u # t /\ Initializing(u)
            /\ (ppc[t] # "idle" /\ qaState = INITIALIZED) => ENABLED PoolStep(t)
            /\ ppc[t] = "idle" => (aret[t] # NONE /\ aret[t] \in owned[t])

\* C8 witness: an allocate_queue call waits for the other thread's pre-fill.
C8_Witness ==
    \E t \in PoolThreads : pcall[t] = "allocate" /\ Waiting(t)

\* C9: while no deallocate_queue call has pushed, each of the first
\* QUEUE_POOL_CAPACITY pops on the initialized pool returns a pre-filled box
\* that no earlier pop returned, and hands it to its caller; every later pop
\* finds the pool empty, and its call returns a box constructed just then.
C9_FirstCPooledThenFresh ==
    [][\A t \in PoolThreads :
          /\ (~pushed /\ ppc[t] = "pop" /\ ppc'[t] # "pop") =>
                IF Len(popLog) < QUEUE_POOL_CAPACITY
                THEN /\ ppc'[t] = "idle"
                     /\ aret'[t] \in prefilled
                     /\ aret'[t] \notin Range(popLog)
                     /\ aret'[t] \in owned'[t]
                ELSE ppc'[t] = "fallback" /\ pool = <<>>
          /\ (ppc[t] = "fallback" /\ ppc'[t] # "fallback") =>
                /\ ppc'[t] = "idle"
                /\ aret'[t] = nextId
                /\ aret'[t] \notin prefilled
                /\ aret'[t] \in owned'[t]]_vars

\* C9 witness: with no deallocate_queue call at all, QUEUE_POOL_CAPACITY + 1
\* allocate_queue calls have returned, the last one with a fresh box.
C9_Witness ==
    /\ ~pushed
    /\ \A t \in PoolThreads : ppc[t] = "idle" /\ pcall[t] # "deallocate"
    /\ Len(popLog) = QUEUE_POOL_CAPACITY + 1
    /\ popLog[QUEUE_POOL_CAPACITY + 1] = NONE
    /\ fresh = 1
    /\ \E t \in PoolThreads : aret[t] \notin prefilled /\ aret[t] \in owned[t]

\* C10: the push of deallocate_queue(x) on a pool that holds
\* QUEUE_POOL_CAPACITY boxes leaves the pool as it is and drops x; and a
\* dropped box is never again in the pool or in a caller's hands.
C10_FullPoolDrops ==
    [][/\ \A t \in PoolThreads :
            (ppc[t] = "push" /\ ppc'[t] = "idle"
               /\ Len(pool) = QUEUE_POOL_CAPACITY) =>
                  /\ pool' = pool
                  /\ arg[t] \in finalized'
       /\ \A x \in finalized :
            /\ x \in finalized'
            /\ x \notin Range(pool')
            /\ \A t \in PoolThreads : x \notin owned'[t] /\ arg'[t] # x]_vars

\* C10 witness: a box was dropped at the full pool, and allocate_queue calls
\* have since emptied the pool.
C10_Witness ==
    /\ finalized # {}
    /\ prefillErr = 0
    /\ qaState = INITIALIZED
    /\ pool = <<>>

(***************************************************************************)
(* Properties of the race on an empty pool, checked under RaceSpec.        *)
(***************************************************************************)
\* the racers whose allocate_queue call returned a pre-filled box
GotPooled == {r \in Racers : aret[r] \in prefilled}

\* the racers whose allocate_queue call constructed its box
GotFresh == {r \in Racers : aret[r] # NONE /\ aret[r] \notin prefilled}

\* every racer has returned from deallocate_queue()
AllDeallocated == \A r \in Racers : pcall[r] = "deallocate" /\ ppc[r] = "idle"

\* C11: when QUEUE_POOL_CAPACITY + 1 callers race allocate_queue on the
\* empty pool, at most QUEUE_POOL_CAPACITY of them are handed a pre-existing
\* box and the others a box constructed by their own call, all different;
\* once all of them have given their box back, the pool holds exactly
\* QUEUE_POOL_CAPACITY boxes and exactly one box was dropped.
C11_RaceOnEmptyPool ==
    /\ Cardinality(GotPooled) <= QUEUE_POOL_CAPACITY
    /\ AllAllocated =>
          /\ GotPooled \cup GotFresh = Racers
          /\ \A r, q \in Racers : r # q => aret[r] # aret[q]
    /\ AllDeallocated =>
          /\ Len(pool) = QUEUE_POOL_CAPACITY
          /\ Cardinality(finalized) = 1
          /\ finalized \subseteq {aret[r] : r \in Racers}

\* C11 witness: the race on the emptied pool is over: every racer had
\* constructed its box, and all have given it back.
C11_Witness ==
    /\ AllDeallocated
    /\ Cardinality(owned[Holder]) = QUEUE_POOL_CAPACITY
    /\ GotFresh = Racers
    /\ Cardinality(finalized) = 1

(***************************************************************************)
(* Properties of OnceLock with factories that never return, checked under  *)
(* HangSpec.                                                               *)
(***************************************************************************)
\* thread t is in the busy-wait loop of lines 68-70
Spinning(t) == pc[t] \in {"spin", "snooze"}

\* C12: once a caller has won the CAS and its factory does not return, the
\* status is INITIALIZING forever; the slot is never written, no second
\* factory is started, no get_or_init call returns and every get() returns
\* empty; a caller that entered the busy-wait loop never leaves it, and it
\* keeps polling: it is at the load of line 68 again and again.
C12_HungFactorySpinsForever ==
    /\ [](state = INITIALIZING =>
            [](/\ state = INITIALIZING
               /\ value = UNINIT /\ writes = 0
               /\ Cardinality({t \in Threads : pc[t] = "factory"}) = 1
               /\ ~completed
               /\ \A t \in Threads : Returned(t, "get") => ret[t] = NONE))
    /\ \A t \in Threads :
         /\ [](Spinning(t) => [](Spinning(t)))
         /\ [](Spinning(t) => ([]<>(pc[t] = "spin") /\ []<>(pc[t] = "snooze")))
         /\ [](state = INITIALIZING /\ pc[t] = "cas" => <>Spinning(t))

\* C12 witness: one thread is inside its factory while the other, whose
\* get() had returned empty, is waiting in the busy-wait loop.
C12_Witness ==
    \E w, t \in Threads :
        /\ pc[w] = "factory"
        /\ pc[t] = "snooze" /\ calls[t] = 2 /\ ret[t] = NONE

(***************************************************************************)
(* The cell as its callers see it, checked under Spec: an abstract cell    *)
(* that a factory run by one get_or_init caller fills in one atomic step,  *)
(* and whose content every returning call reads in one atomic step.        *)
(***************************************************************************)
\* the content of the abstract cell: empty until the value is published
AbsValue == IF state = INITIALIZED THEN value ELSE NONE

\* thread t is inside a call
InCall(t) == pc[t] # "idle"

\* what the callers can observe
absVars == <<AbsValue, invoked, [t \in Threads |-> InCall(t)], op, ret>>

\* t calls get() or get_or_init(f)
AbsCall(t) ==
    /\ ~InCall(t) /\ InCall(t)'
    /\ op'[t] \in {"get", "get_or_init"}
    /\ \A u \in Threads \ {t} : InCall(u)' = InCall(u) /\ op'[u] = op[u]
    /\ UNCHANGED <<AbsValue, invoked, ret>>

\* the one factory that ever runs: the factory of a get_or_init call in
\* progress on the empty cell
AbsRunFactory(t) ==
    /\ InCall(t) /\ op[t] = "get_or_init"
    /\ AbsValue = NONE /\ invoked = <<>>
    /\ invoked' = <<fac[t]>>
    /\ UNCHANGED <<AbsValue, [u \in Threads |-> InCall(u)], op, ret>>

\* the caller that ran the factory fills the cell, atomically
AbsInitialize(t) ==
    /\ InCall(t) /\ op[t] = "get_or_init"
    /\ AbsValue = NONE /\ invoked = <<fac[t]>>
    /\ AbsValue' = RunFactory(fac[t])
    /\ UNCHANGED <<invoked, [u \in Threads |-> InCall(u)], op, ret>>

\* a call returns the content of the cell; get_or_init returns only once
\* the cell is filled
AbsReturn(t) ==
    /\ InCall(t) /\ ~InCall(t)'
    /\ op[t] = "get_or_init" => AbsValue # NONE
    /\ ret' = [ret EXCEPT ![t] = AbsValue]
    /\ \A u \in Threads \ {t} : InCall(u)' = InCall(u)
    /\ UNCHANGED <<AbsValue, invoked, op>>

AbsNext ==
    \E t \in Threads :
        AbsCall(t) \/ AbsRunFactory(t) \/ AbsInitialize(t) \/ AbsReturn(t)

\* C13: every behaviour of the spin-based cell is, for its callers, a
\* behaviour of the abstract cell: every step either changes nothing they
\* can observe or is a call, the single run of a factory, the atomic
\* initialization with that factory's result, or a return of the cell's
\* content; and the cell starts empty.
C13_RefinesAtomicOnceCell ==
    /\ AbsValue = NONE /\ invoked = <<>> /\ \A t \in Threads : ~InCall(t)
    /\ [][AbsNext]_absVars

\* C13 witness: the cell is filled; one thread's get() had returned empty
\* and the other's get_or_init has returned the cell's content.
C13_Witness ==
    \E t, u \in Threads :
        /\ Returned(t, "get") /\ calls[t] = 1 /\ ret[t] = NONE
        /\ Returned(u, "get_or_init") /\ ret[u] = AbsValue /\ AbsValue # NONE

\* C14: the cell starts EMPTY and every step leaves the status word alone or
\* moves it EMPTY -> INITIALIZING or INITIALIZING -> INITIALIZED (so each of
\* the two moves happens at most once, none goes backwards, none skips
\* INITIALIZING, and INITIALIZED is never left).
C14_StatusOnlyMovesForward ==
    /\ state = EMPTY
    /\ [][\/ state' = state
          \/ state = EMPTY /\ state' = INITIALIZING
          \/ state = INITIALIZING /\ state' = INITIALIZED]_vars

\* C14 witness: the status is INITIALIZED while a get_or_init call, whose
\* fast path had not yet seen it, is about to attempt its compare_exchange.
C14_Witness ==
    /\ state = INITIALIZED
    /\ \E t \in Threads : pc[t] = "cas" /\ calls[t] = 2

\* positions of the caller whose compare_exchange succeeded (lines 58-63)
WinnerPath == {"factory", "write", "store", "win_read"}

\* positions of a caller whose compare_exchange failed (lines 67-71)
LoserPath == {"spin", "snooze", "spin_read"}

\* C15: the slot is written at most once and a factory runs at most once,
\* both by the one caller whose compare_exchange found EMPTY; a
\* compare_exchange that finds INITIALIZING or INITIALIZED sends its caller
\* to the wait loop, from where it only returns, never running its factory
\* nor writing the slot.
C15_OnlyCasWinnerWrites ==
    [][/\ writes' <= 1
       /\ Len(invoked') <= 1
       /\ writes' # writes =>
            \E t \in Threads : pc[t] = "write" /\ pc'[t] \in WinnerPath
       /\ invoked' # invoked =>
            \E t \in Threads : pc[t] = "factory" /\ invoked' = <<fac[t]>>
       /\ \A t \in Threads :
            /\ pc'[t] \in WinnerPath => pc[t] \in WinnerPath \union {"cas"}
            /\ pc[t] = "cas" /\ pc'[t] \in WinnerPath =>
                 /\ state = EMPTY /\ state' = INITIALIZING
                 /\ writes = 0 /\ invoked = <<>>
                 /\ \A u \in Threads \ {t} : pc[u] \notin WinnerPath
            /\ pc[t] = "cas" /\ state # EMPTY /\ pc'[t] # "cas" =>
                 pc'[t] \in LoserPath
            /\ pc[t] \in LoserPath =>
                 /\ pc'[t] \in LoserPath \union {"idle"}
                 /\ pc'[t] # pc[t] => writes' = writes /\ invoked' = invoked]_vars

\* C15 witness: the slot has been written once, by the winner, while a
\* caller whose compare_exchange failed sits in the wait loop with a
\* factory that never ran.
C15_Witness ==
    \E w, t \in Threads :
        /\ writes = 1 /\ pc[w] = "store" /\ invoked = <<fac[w]>>
        /\ pc[t] = "snooze" /\ fac[t] \notin Range(invoked)

(***************************************************************************)
(* Termination of get_or_init, checked under FairSpec.                     *)
(***************************************************************************)
\* C16: with factories that return and fair scheduling, every get_or_init
\* call eventually returns the stored value; a caller in the wait loop
\* eventually reads INITIALIZED at line 68 and leaves the loop for the read
\* of line 71, from which it returns the value.
C16_EveryCallReturns ==
    \A t \in Threads :
        /\ (InCall(t) /\ op[t] = "get_or_init")
              ~> (Returned(t, "get_or_init") /\ ret[t] = value /\ value # UNINIT)
        /\ Spinning(t) ~> (pc[t] = "spin_read" /\ state = INITIALIZED)
        /\ (pc[t] = "spin_read") ~> (Returned(t, "get_or_init") /\ ret[t] = value)

\* C16 witness: a caller whose compare_exchange failed has read INITIALIZED
\* and left the loop, while the winner has not returned yet.
C16_Witness ==
    \E w, t \in Threads :
        /\ pc[w] = "win_read" /\ invoked = <<fac[w]>>
        /\ pc[t] = "spin_read" /\ calls[t] = 1 /\ state = INITIALIZED

(***************************************************************************)
(* Properties of get(), checked under Spec.                                *)
(***************************************************************************)
\* thread t is inside a call of get()
InGet(t) == InCall(t) /\ op[t] = "get"

\* C17: a thread inside get() can always take its next step, whatever the
\* other threads do (it never waits); the call, made while the status is
\* EMPTY or INITIALIZING, returns None at its one load of the status; and no
\* step of a get() call changes the status word or the slot.
C17_GetNeverWaitsNorWrites ==
    [][\A t \in Threads :
         /\ InGet(t) => ENABLED (GetLoad(t) \/ GetRead(t))
         /\ (InGet(t) => ENABLED (GetLoad(t) \/ GetRead(t)))'
         /\ ~InCall(t) /\ InGet(t)' =>
              UNCHANGED <<state, value, writes, invoked>>
         /\ InGet(t) /\ pc'[t] # pc[t] =>
              /\ UNCHANGED <<state, value, writes, invoked>>
              /\ state # INITIALIZED =>
                   pc[t] = "get_load" /\ ~InCall(t)' /\ ret'[t] = NONE]_vars

\* C17 witness: get() has been called and is at its load while another
\* caller's factory is running.
C17_Witness ==
    \E w, t \in Threads :
        /\ pc[w] = "factory" /\ state = INITIALIZING
        /\ InGet(t) /\ pc[t] = "get_load"

(***************************************************************************)
(* Conservation of boxes, checked under PoolSpec.                          *)
(***************************************************************************)
\* the boxes constructed so far, by the pre-fill (line 18), by
\* allocate_queue's fallback (line 28) or by a caller of deallocate_queue
Constructed == 1..(nextId - 1)

\* how many times sequence q holds x
Occurrences(q, x) == Cardinality({i \in DOMAIN q : q[i] = x})

\* how many times x is resident in the pool: in QUEUE_ALLOCATOR, or in the
\* queue the pre-fill closure is still filling
InQueue(x) ==
    Occurrences(pool, x)
      + Cardinality({<<t, i>> \in PoolThreads \X (1..QUEUE_POOL_CAPACITY) :
                        Initializing(t) /\ i \in DOMAIN lq[t] /\ lq[t][i] = x})

\* the callers that own x: it was returned to them by allocate_queue, or
\* it is the `element` of their deallocate_queue call, not yet pushed
Owners(x) == {t \in PoolThreads : x \in owned[t] \/ arg[t] = x}

\* how many places hold x
Places(x) ==
    InQueue(x) + Cardinality(Owners(x)) + (IF x \in finalized THEN 1 ELSE 0)

\* every box constructed so far is in exactly one place, and nothing else is
\* anywhere
Conserved ==
    /\ \A x \in Constructed : Places(x) = 1
    /\ Range(pool) \cup finalized \cup UNION {owned[t] : t \in PoolThreads}
         \subseteq Constructed
    /\ \A t \in PoolThreads : arg[t] \in Constructed \cup {NONE}

\* C18: every box constructed so far is in exactly one place: once in the
\* pool queue, or owned by one caller, or finalized; nothing else is
\* anywhere; and a finalized box stays finalized, so it never returns to the
\* pool or to a caller.
C18_BoxesConserved ==
    /\ Conserved
    /\ [][Conserved' /\ finalized \subseteq finalized']_vars

\* C18 witness: boxes are in all three places at once, one of them a
\* pre-filled box that a caller took and whose return found the pool full.
C18_Witness ==
    /\ pool # <<>>
    /\ \E t \in PoolThreads : owned[t] # {}
    /\ finalized \cap prefilled # {}
    /\ Range(pool) \ prefilled # {}

(***************************************************************************)
(* deallocate_queue as the first pool call, checked under PoolSpec.        *)
(* firstArg is its element (NONE if the first call was allocate_queue); a  *)
(* box that a push drops is never pushed again, so a push of firstArg that *)
(* does not drop it is the push of that first call.                        *)
(***************************************************************************)
\* thread t pushes the element of the first call at this step
PushesFirst(t) == firstArg # NONE /\ ppc[t] = "push" /\ arg[t] = firstArg

\* the queue has been created and fully pre-filled, once
PrefillDone ==
    /\ qaState = INITIALIZED
    /\ prefillRuns = 1
    /\ Cardinality(prefilled) = QUEUE_POOL_CAPACITY

\* the push at this step finds the pool full, drops the element of the
\* first call and leaves the pool holding the pre-filled boxes
FirstIsDropped ==
    /\ Len(pool) = QUEUE_POOL_CAPACITY
    /\ firstArg \in finalized' /\ firstArg \notin Range(pool')
    /\ Len(pool') = QUEUE_POOL_CAPACITY /\ Range(pool') = prefilled

\* C19 (as claimed): when deallocate_queue(x) is the first pool call, the
\* queue is created and fully pre-filled before its push, and its push
\* finds the pool at capacity: x is dropped, not queued, and the pool holds
\* exactly the pre-filled boxes afterwards.
C19_FirstDeallocateDropped ==
    [][\A t \in PoolThreads :
         PushesFirst(t) /\ ppc'[t] = "idle" => PrefillDone /\ FirstIsDropped]_vars

\* C19 (amended): when deallocate_queue(x) is the first pool call, the queue
\* is created and fully pre-filled before its push; if no allocate_queue
\* call has popped from the pool before that push, the push finds the pool
\* at capacity: x is dropped, not queued, and the pool holds exactly the
\* pre-filled boxes afterwards.
C19_FirstDeallocateDroppedUnlessPopped ==
    [][\A t \in PoolThreads :
         PushesFirst(t) /\ ppc'[t] = "idle" =>
            /\ PrefillDone
            /\ ~popped => FirstIsDropped]_vars

\* C19 witness: the first call was deallocate_queue(x), it has pushed, no
\* pop came before, x is dropped and the pool holds the pre-filled boxes.
C19_Witness ==
    /\ firstArg # NONE /\ firstArg \in finalized
    /\ ~popped /\ pushed
    /\ Len(pool) = QUEUE_POOL_CAPACITY /\ Range(pool) = prefilled

(***************************************************************************)
(* Properties of OnceLock with re-entrant factories, checked under         *)
(* ReentrantSpec.                                                          *)
(***************************************************************************)
\* C20: with a factory that calls get_or_init on the same cell, the status
\* never reaches INITIALIZED, the slot is never written, no factory ever
\* completes and no call returns a value; the caller that won the
\* compare_exchange ends up, in its inner call, in the wait loop of lines
\* 68-70 and polls there forever, as does every other get_or_init caller.
C20_ReentrantFactoryNeverCompletes ==
    /\ [](/\ state # INITIALIZED
          /\ value = UNINIT /\ writes = 0 /\ invoked = <<>>
          /\ ~completed
          /\ \A t \in Threads : pc[t] = "idle" => ret[t] = NONE)
    /\ \A t \in Threads :
         /\ [](pc[t] = "factory" => <>[](Spinning(t) /\ state = INITIALIZING))
         /\ [](Spinning(t) => ([]<>(pc[t] = "spin") /\ []<>(pc[t] = "snooze")))
         /\ []((InCall(t) /\ op[t] = "get_or_init") => []InCall(t))

\* C20 witness: the status is INITIALIZING and every thread, the winner of
\* the compare_exchange included, is snoozing in the wait loop.
C20_Witness ==
    /\ state = INITIALIZING
    /\ \A t \in Threads : pc[t] = "snooze" /\ calls[t] = 1

=============================================================================
